---- MODULE Spec2Model ----
(***************************************************************************)
(* Workflow control engine of BrandAI: the LangGraph orchestrator          *)
(* (brand_kit -> generation -> critique -> refinement with conditional     *)
(* routing), the critique fan-out with scorer and ranker, and the          *)
(* refinement decision policy.                                             *)
(*                                                                         *)
(* Numbers.  Scores are Python floats in [0,1]; they are modelled as exact *)
(* rationals <<n, d>> (d > 0, reduced), so 0.3 is <<3, 10>>.  Rounding of  *)
(* binary floating point is not modelled.                                  *)
(*                                                                         *)
(* Text.  A text is a sequence of words; the Python test  kw in text       *)
(* (substring) is modelled by the table Substr, which gives for a word the *)
(* keywords it contains, and str.lower by the table Lower.                 *)
(***************************************************************************)
EXTENDS Integers, Sequences, FiniteSets, TLC

(***************************************************************************)
(* Bounds of the model                                                     *)
(***************************************************************************)
MaxRetriesBound == 2

\* longest list of variations handed to the ranker
MaxVariations == 3

(***************************************************************************)
(* Exact rational arithmetic                                               *)
(***************************************************************************)
RECURSIVE GCD(_, _)
GCD(a, b) == IF b = 0 THEN a ELSE GCD(b, a % b)

Abs(x) == IF x < 0 THEN 0 - x ELSE x

Rat(n, d) ==
    LET g == GCD(Abs(n), d)
    IN  IF n = 0 THEN <<0, 1>> ELSE <<n \div g, d \div g>>

Tenths(k) == Rat(k, 10)

RAdd(a, b) == Rat(a[1] * b[2] + b[1] * a[2], a[2] * b[2])

RMul(a, b) == Rat(a[1] * b[1], a[2] * b[2])

RDiv(a, b) == Rat(a[1] * b[2], a[2] * b[1])

RLt(a, b) == a[1] * b[2] < b[1] * a[2]

RGe(a, b) == ~RLt(a, b)

RMin(a, b) == IF RLt(b, a) THEN b ELSE a

RMax(a, b) == IF RLt(a, b) THEN b ELSE a

Clamp01(x) == RMax(<<0, 1>>, RMin(<<1, 1>>, x))

RECURSIVE RSum(_)
RSum(s) == IF s = <<>> THEN <<0, 1>> ELSE RAdd(s[1], RSum(Tail(s)))

(***************************************************************************)
(* Text: words, lower-casing and substring containment                     *)
(***************************************************************************)
Lower(w) ==
    CASE w = "Logo"  -> "logo"
      [] w = "Brand" -> "brand"
      [] w = "Blur"  -> "blur"
      [] w = "Error" -> "error"
      [] w = "Image" -> "image"
      [] w = "Product" -> "product"
      [] w = "Visual" -> "visual"
      [] w = "No"    -> "no"
      [] OTHER       -> w

Substr(w) ==
    CASE w = "brand_alignment" -> {"brand"}
      [] w = "message_clarity" -> {"message"}
      [] w = "safety_ethics"   -> {"safety"}
      [] w = "visual_quality"  -> {}
      [] w = "artifacts"       -> {"artifact"}
      [] w = "colors"          -> {"color"}
      [] w = "blurry"          -> {"blur", "blurry"}
      [] w = "brightness"      -> {"bright", "brightness"}
      [] OTHER                 -> {w}

LowerText(t) == [i \in 1..Len(t) |-> Lower(t[i])]

\* " ".join(issues): the words of the issue strings, in order
RECURSIVE Join(_)
Join(issues) == IF issues = <<>> THEN <<>> ELSE issues[1] \o Join(Tail(issues))

\* any(kw in text for kw in kws)
AnyKeywordIn(kws, t) == \E i \in 1..Len(t) : Substr(t[i]) \cap kws # {}

(***************************************************************************)
(* Data model                                                              *)
(***************************************************************************)
Dimensions == <<"brand_alignment", "visual_quality", "message_clarity", "safety_ethics">>

NoPath == [attempt |-> 0, enhanced |-> FALSE]

\* Path.parent / f"{stem}_enhanced{suffix}"
EnhancedPath(p) == [attempt |-> p.attempt, enhanced |-> TRUE]

\* BaseEvaluator.create_result: clamps the score, issues default to []
create_result(score, feedback, issues) ==
    [score |-> Clamp01(score), feedback |-> feedback, issues |-> issues]

\* Scorer.create_scorecard
create_scorecard(dimension, score, feedback, issues) ==
    [dimension |-> dimension, score |-> Clamp01(score),
     feedback |-> feedback, issues |-> issues]

\* Scorer.create_scorecards_from_evaluations: the dict literal of the caller
\* is iterated in insertion order, which is the order of Dimensions
create_scorecards_from_evaluations(evaluations) ==
    [i \in 1..Len(Dimensions) |->
        create_scorecard(Dimensions[i], evaluations[Dimensions[i]].score,
                         evaluations[Dimensions[i]].feedback,
                         evaluations[Dimensions[i]].issues)]

\* sum(f[k] for k in S)
RECURSIVE RSumOver(_, _)
RSumOver(f, S) ==
    IF S = {} THEN <<0, 1>>
    ELSE LET k == CHOOSE x \in S : TRUE
         IN  RAdd(f[k], RSumOver(f, S \ {k}))

\* dict.get(key, default)
Get(d, key, default) == IF key \in DOMAIN d THEN d[key] ELSE default

\* variant: every dimension weighs 1.0 and the weighted sum is not divided
calculate_overall_score_unit_weights(dimension_scores, weights) ==
    LET dims == DOMAIN dimension_scores
    IN  IF dims = {} THEN <<0, 1>>
        ELSE Clamp01(RSumOver(dimension_scores, dims))

\* Scorer.calculate_overall_score: dimension_scores is a dict (a function on
\* its keys), weights is <<>> (None) or <<the dict of weights>>
calculate_overall_score(dimension_scores, weights) ==
    LET dims == DOMAIN dimension_scores
        n == Cardinality(dims)
        equal == [dim \in dims |-> Rat(1, n)]
        weights1 == IF weights = <<>> THEN equal ELSE weights[1]
        total_weight1 == RSumOver([dim \in dims |-> Get(weights1, dim, <<0, 1>>)], dims)
        total_weight == IF total_weight1[1] = 0 THEN <<n, 1>> ELSE total_weight1
        weights2 == IF total_weight1[1] = 0 THEN equal ELSE weights1
        weighted_sum ==
            RSumOver([dim \in dims |->
                        RMul(dimension_scores[dim], Get(weights2, dim, Rat(1, n)))],
                     dims)
    IN  IF dims = {} THEN <<0, 1>>
        ELSE IF total_weight[1] > 0 THEN Clamp01(RDiv(weighted_sum, total_weight))
        ELSE <<0, 1>>

\* variant: the overall score has to exceed min_overall
determine_pass_fail_strict(overall_score, dimension_scores) ==
    IF ~RLt(Tenths(6), overall_score) THEN FALSE
    ELSE \A i \in DOMAIN dimension_scores : ~RLt(dimension_scores[i], Tenths(4))

\* Scorer.determine_pass_fail with the default thresholds
determine_pass_fail(overall_score, dimension_scores) ==
    IF RLt(overall_score, Tenths(6)) THEN FALSE
    ELSE \A i \in DOMAIN dimension_scores : ~RLt(dimension_scores[i], Tenths(4))

(***************************************************************************)
(* Ranker                                                                  *)
(***************************************************************************)
\* sorted(..., key=overall_score, reverse=True) is stable: an element goes
\* behind every element whose score is greater or equal
RECURSIVE InsertDesc(_, _)
InsertDesc(v, s) ==
    IF s = <<>> THEN <<v>>
    ELSE IF RLt(s[1].overall_score, v.overall_score) THEN <<v>> \o s
    ELSE <<s[1]>> \o InsertDesc(v, Tail(s))

RECURSIVE SortDesc(_, _)
SortDesc(todo, acc) ==
    IF todo = <<>> THEN acc ELSE SortDesc(Tail(todo), InsertDesc(todo[1], acc))

\* variant: the sort starts from the reversed list
rank_variations_reversed_ties(variation_results) ==
    LET n == Len(variation_results)
        ranked == SortDesc([i \in 1..n |-> variation_results[n + 1 - i]], <<>>)
    IN  [i \in 1..Len(ranked) |-> [ranked[i] EXCEPT !.rank = i]]

\* VariationRanker.rank_variations, strategy "overall"
rank_variations(variation_results) ==
    LET ranked == SortDesc(variation_results, <<>>)
    IN  [i \in 1..Len(ranked) |-> [ranked[i] EXCEPT !.rank = i]]

\* the VariationResult objects of the list handed to rank_variations, once
\* it has returned: sorted() builds a new list of the same objects, and the
\* loop that assigns the ranks writes variation.rank on each of them
RankedInPlace(variation_results) ==
    LET ranked == rank_variations(variation_results)
    IN  [i \in 1..Len(variation_results) |->
           ranked[CHOOSE k \in 1..Len(ranked) :
                     ranked[k].variation_id = variation_results[i].variation_id]]

\* s[:n]
Prefix(s, n) ==
    LET stop == IF n < 0 THEN (IF Len(s) + n < 0 THEN 0 ELSE Len(s) + n)
                ELSE IF n > Len(s) THEN Len(s) ELSE n
    IN  SubSeq(s, 1, stop)

\* VariationRanker.get_top_variations: the value returned
get_top_variations(variation_results, top_n) ==
    Prefix(rank_variations(variation_results), top_n)

\* VariationRanker.get_passed_variations: the value returned
get_passed_variations(variation_results) ==
    SelectSeq(variation_results, LAMBDA v : v.passed)

(***************************************************************************)
(* Critique agent: report built from the joined evaluator results          *)
(***************************************************************************)
\* body of the per-variation loop of CritiqueAgent.evaluate_variations after
\* the four futures have been joined
VariationOf(i, ad_path, ev) ==
    LET scorecards == create_scorecards_from_evaluations(ev)
        dimension_scores == [k \in 1..Len(Dimensions) |-> ev[Dimensions[k]].score]
        overall_score == calculate_overall_score(dimension_scores, <<>>)
    IN  [variation_id |-> i, file_path |-> ad_path,
         overall_score |-> overall_score, scorecard |-> scorecards,
         passed |-> determine_pass_fail(overall_score, dimension_scores),
         rank |-> 0]

RECURSIVE CollectVariations(_, _, _)
CollectVariations(i, ad_paths, evals) ==
    IF i > Len(ad_paths) THEN <<>>
    ELSE (IF ad_paths[i].exists
            THEN <<VariationOf(i, ad_paths[i].path, evals[i])>>
            ELSE <<>>)
         \o CollectVariations(i + 1, ad_paths, evals)

\* variant: the failed count is taken from the number of ad paths, so a
\* skipped (missing) file counts as a failed variation
evaluate_variations_counting_skipped(ad_paths, evals) ==
    LET variation_results == CollectVariations(1, ad_paths, evals)
        ranked_variations == rank_variations(variation_results)
        passed_count == Cardinality({i \in 1..Len(variation_results) :
                                        variation_results[i].passed})
    IN  [total_variations |-> Len(variation_results),
         passed_variations |-> passed_count,
         failed_variations |-> Len(ad_paths) - passed_count,
         best_variation |-> IF ranked_variations = <<>> THEN <<>>
                            ELSE <<ranked_variations[1]>>,
         all_variations |-> ranked_variations]

\* CritiqueAgent.evaluate_variations: ad_paths[i] = [path, exists],
\* evals[i] = the joined results of the four evaluators for ad_paths[i]
evaluate_variations(ad_paths, evals) ==
    LET variation_results == CollectVariations(1, ad_paths, evals)
        ranked_variations == rank_variations(variation_results)
        passed_count == Cardinality({i \in 1..Len(variation_results) :
                                        variation_results[i].passed})
    IN  [total_variations |-> Len(variation_results),
         passed_variations |-> passed_count,
         failed_variations |-> Len(variation_results) - passed_count,
         best_variation |-> IF ranked_variations = <<>> THEN <<>>
                            ELSE <<ranked_variations[1]>>,
         all_variations |-> ranked_variations]

(***************************************************************************)
(* Refinement policy                                                       *)
(***************************************************************************)
simple_issue_keywords == {"blur", "noise", "artifact", "contrast", "brightness", "sharp"}

complex_issue_keywords == {"brand", "logo", "color", "message", "product", "safety", "stereotype"}

\* variant: the overall score is read from the report itself, where there is
\* no such key, so the default 0.0 is taken
get_overall_score_top_level(critique_feedback) ==
    Get(critique_feedback, "overall_score", <<0, 1>>)

\* RefinementAgent._get_overall_score
get_overall_score(critique_feedback) ==
    IF critique_feedback.all_variations # <<>>
    THEN critique_feedback.all_variations[1].overall_score
    ELSE <<0, 1>>

\* variant: the safety card is looked up under the name "safety"
has_critical_safety_issues_wrong_name(critique_feedback) ==
    IF critique_feedback.all_variations = <<>> THEN FALSE
    ELSE LET scorecard == critique_feedback.all_variations[1].scorecard
         IN  \E k \in 1..Len(scorecard) :
                /\ scorecard[k].dimension = "safety"
                /\ RLt(scorecard[k].score, Tenths(3))

\* RefinementAgent._has_critical_safety_issues
has_critical_safety_issues(critique_feedback) ==
    IF critique_feedback.all_variations = <<>> THEN FALSE
    ELSE LET scorecard == critique_feedback.all_variations[1].scorecard
         IN  \E k \in 1..Len(scorecard) :
                /\ scorecard[k].dimension = "safety_ethics"
                /\ RLt(scorecard[k].score, Tenths(3))

\* one iteration of the loop of _has_only_simple_issues: TRUE when the
\* dimension makes the function return False
ComplexIssueFound(dimension) ==
    LET dim_name == Lower(dimension.dimension)
        feedback == LowerText(dimension.feedback)
        all_text == feedback \o Join(dimension.issues)
    IN  /\ RLt(dimension.score, Tenths(7))
        /\ \/ AnyKeywordIn(complex_issue_keywords, <<dim_name>>)
           \/ AnyKeywordIn(complex_issue_keywords, all_text)

\* variant: only dimensions scoring below 0.5 are examined
has_only_simple_issues_low_threshold(critique_feedback) ==
    IF critique_feedback.all_variations = <<>> THEN FALSE
    ELSE LET scorecard == critique_feedback.all_variations[1].scorecard
         IN  \A k \in 1..Len(scorecard) :
                RLt(scorecard[k].score, Tenths(5)) => ~ComplexIssueFound(scorecard[k])

\* RefinementAgent._has_only_simple_issues
has_only_simple_issues(critique_feedback) ==
    IF critique_feedback.all_variations = <<>> THEN FALSE
    ELSE LET scorecard == critique_feedback.all_variations[1].scorecard
         IN  \A k \in 1..Len(scorecard) : ~ComplexIssueFound(scorecard[k])

\* variant: approval needs an overall score of at least 0.75
determine_strategy_approve_from_075(critique_feedback, media_type) ==
    LET overall_score == get_overall_score(critique_feedback)
    IN  IF has_critical_safety_issues(critique_feedback) THEN "reject"
        ELSE IF RLt(overall_score, Tenths(3)) THEN "reject"
        ELSE IF RGe(overall_score, Rat(3, 4)) THEN "approve"
        ELSE IF media_type = "image" /\ has_only_simple_issues(critique_feedback)
             THEN "enhance"
        ELSE "regenerate"

\* variant: approval needs an overall score strictly above 0.7
determine_strategy_strict_approve(critique_feedback, media_type) ==
    LET overall_score == get_overall_score(critique_feedback)
    IN  IF has_critical_safety_issues(critique_feedback) THEN "reject"
        ELSE IF RLt(overall_score, Tenths(3)) THEN "reject"
        ELSE IF RLt(Tenths(7), overall_score) THEN "approve"
        ELSE IF media_type = "image" /\ has_only_simple_issues(critique_feedback)
             THEN "enhance"
        ELSE "regenerate"

\* RefinementAgent._determine_strategy
determine_strategy(critique_feedback, media_type) ==
    LET overall_score == get_overall_score(critique_feedback)
    IN  IF has_critical_safety_issues(critique_feedback) THEN "reject"
        ELSE IF RLt(overall_score, Tenths(3)) THEN "reject"
        ELSE IF RGe(overall_score, Tenths(7)) THEN "approve"
        ELSE IF media_type = "image" /\ has_only_simple_issues(critique_feedback)
             THEN "enhance"
        ELSE "regenerate"

enhancement_keywords ==
    {"blur", "blurry", "unsharp", "soft", "noise", "noisy", "artifact", "grain",
     "contrast", "flat", "dull", "bright", "dark", "brightness", "exposure"}

\* RefinementAgent._determine_enhancements followed by any(enhancements.values())
any_enhancement(critique_feedback) ==
    IF critique_feedback.all_variations = <<>> THEN FALSE
    ELSE LET scorecard == critique_feedback.all_variations[1].scorecard
         IN  \E k \in 1..Len(scorecard) :
                AnyKeywordIn(enhancement_keywords,
                             LowerText(scorecard[k].feedback)
                                \o LowerText(Join(scorecard[k].issues)))

(***************************************************************************)
(* Outcomes of the external collaborators                                  *)
(***************************************************************************)
\* the except branch of XEvaluator.evaluate: score 0.0 and an error text
EvaluatorError(word) ==
    create_result(<<0, 1>>, <<"Error", "during", word, "evaluation">>,
                  << <<"Evaluation", "error">> >>)

ErrorWord(dim) ==
    CASE dim = "brand_alignment" -> "brand"
      [] dim = "visual_quality"  -> "quality"
      [] dim = "message_clarity" -> "clarity"
      [] dim = "safety_ethics"   -> "safety"

\* results an evaluator returns when its analysis goes through
GoodResult == create_result(Tenths(7), <<"fine">>, <<>>)

BlurResult == create_result(Tenths(5), <<"Blur", "visible">>, << <<"blur">> >>)

LogoResult == create_result(Tenths(2), <<"weak">>, << <<"logo", "missing">> >>)

OtherResult == create_result(Tenths(5), <<"weak">>, << <<"composition">> >>)

ExcellentResult == create_result(Tenths(9), <<"fine">>, <<>>)

\* the safety evaluator found harmful content
UnsafeResult == create_result(Tenths(2), <<"harmful">>, << <<"stereotype">> >>)

EvaluatorResults(dim) ==
    {GoodResult, BlurResult, LogoResult}
    \cup (IF dim = "visual_quality" THEN {OtherResult} ELSE {})

\* BrandEvaluator.evaluate without a brand kit
NoBrandKitResult ==
    create_result(Tenths(5), <<"No", "brand", "kit", "provided">>,
                  << <<"Missing", "brand", "kit", "data">> >>)

DimSet == {Dimensions[i] : i \in 1..Len(Dimensions)}

AllGood == [d \in DimSet |-> GoodResult]

\* the joined evaluator results the critique stage of a run draws from
WorkflowEvaluations ==
    {AllGood,
     [AllGood EXCEPT !["visual_quality"] = BlurResult],
     [AllGood EXCEPT !["visual_quality"] = OtherResult],
     [AllGood EXCEPT !["brand_alignment"] = LogoResult],
     [AllGood EXCEPT !["safety_ethics"] = EvaluatorError("safety")],
     [d \in DimSet |-> IF d = "safety_ethics" THEN UnsafeResult ELSE ExcellentResult]}

(***************************************************************************)
(* Workflow state                                                          *)
(***************************************************************************)
\* recursion_limit of the compiled graph: stream() is called without a config,
\* so the graph engine stops a run after its default number of supersteps (25)
\* and raises GraphRecursionError
RecursionLimit == 25

VARIABLES
    pc,                 \* position of WorkflowOrchestrator.execute
    state,              \* the graph's WorkflowState (channel values)
    final_state,        \* execute's local: <<>> (None) or <<last streamed node output>>
    node_count,         \* execute's local: streamed steps so far
    final_result,       \* <<>> or <<the dict execute returns>>
    progress,           \* progress last written through run_manager.update_status
    gen_count,          \* history: executions of the generation stage that produced an artifact
    regen_transitions,  \* history: executions of the generation stage entered from refinement
    critiqued_path,     \* history: artifact handed to the last critique pass
    policy_call,        \* one call of the refinement policy: input and result
    repaired_path,      \* history: NoPath or the artifact the image enhancer wrote for generated_ad_path
    run_outcome,        \* "none", or the call that closed the run: "complete_run" / "fail_run"
    after_cancel,       \* history of a cancellation: "none", "executing", "boundary", "started"
    fan,                \* one evaluator fan-out of CritiqueAgent.evaluate_variations
    scoring_call        \* one call of a scorer or ranker function: input and result

wf_vars == <<pc, state, final_state, node_count, final_result, progress,
             gen_count, regen_transitions, critiqued_path, repaired_path,
             run_outcome, after_cancel>>

vars == <<pc, state, final_state, node_count, final_result, progress,
          gen_count, regen_transitions, critiqued_path, repaired_path,
          run_outcome, after_cancel, policy_call, fan, scoring_call>>

Nodes == {"brand_kit", "generation", "critique", "refinement"}

\* initial_state of WorkflowOrchestrator.execute
initial_state(media_type, max_retries) ==
    [media_type |-> media_type,
     brand_kit_extracted |-> FALSE,
     generated_ad_path |-> NoPath,
     generation_success |-> FALSE,
     generation_error |-> "None",
     critique_feedback |-> <<>>,
     critique_success |-> FALSE,
     critique_error |-> "None",
     overall_score |-> <<>>,
     refinement_strategy |-> "None",
     refined_ad_path |-> NoPath,
     refined_prompt |-> "None",
     refinement_success |-> FALSE,
     refinement_error |-> "None",
     retry_count |-> 0,
     max_retries |-> max_retries,
     workflow_status |-> "in_progress",
     error_message |-> "None"]

(***************************************************************************)
(* Graph engine and the streaming loop of execute                          *)
(***************************************************************************)
\* one iteration of  for output in self.workflow.stream(initial_state):
\* the node's return value becomes the graph state; the streamed copy is kept
\* as final_state, and the retry counter is incremented on that copy
StreamStep(node_name, node_state, next) ==
    /\ state' = node_state
    /\ node_count' = node_count + 1
    /\ final_state' =
          << IF node_name = "refinement" /\ node_state.refinement_strategy = "regenerate"
               THEN [node_state EXCEPT !.retry_count = node_state.retry_count + 1]
               ELSE node_state >>
    /\ pc' = next
    /\ after_cancel' = CASE after_cancel = "none" -> "none"
                         [] after_cancel = "executing" -> "boundary"
                         [] OTHER -> "started"

\* a node may run only while the engine has supersteps left
CanRun(node_name) == pc = node_name /\ node_count < RecursionLimit

\* should_continue
should_continue(st) ==
    LET strategy == st.refinement_strategy
        retry_count == st.retry_count
        max_retries == st.max_retries
    IN  IF strategy = "None" THEN "end"
        ELSE IF strategy = "approve" THEN "approve"
        ELSE IF strategy = "reject" THEN "reject"
        ELSE IF strategy = "regenerate"
             THEN (IF retry_count >= max_retries THEN "end" ELSE "regenerate")
        ELSE IF strategy = "enhance" THEN "enhance"
        ELSE "end"

\* the conditional edges of create_workflow_graph
RouteAfterRefinement(st) ==
    CASE should_continue(st) = "regenerate" -> "generation"
      [] should_continue(st) = "enhance"    -> "critique"
      [] OTHER                              -> "end"

(***************************************************************************)
(* Nodes                                                                   *)
(***************************************************************************)
\* execute, up to the start of the stream: the first status update is made
\* outside the try block
Start ==
    /\ pc = "init"
    /\ \/ /\ pc' = "brand_kit"
          /\ progress' = 0
       \/ /\ pc' = "raised"
          /\ UNCHANGED progress
    /\ UNCHANGED <<state, final_state, node_count, final_result, gen_count,
                   regen_transitions, critiqued_path, repaired_path, run_outcome,
                   after_cancel, policy_call, fan, scoring_call>>

brand_kit_node ==
    /\ CanRun("brand_kit")
    /\ \E outcome \in {"ok", "error"} :
          /\ StreamStep("brand_kit",
                IF outcome = "ok"
                  THEN [state EXCEPT !.brand_kit_extracted = TRUE]
                  ELSE [state EXCEPT !.brand_kit_extracted = FALSE,
                                     !.workflow_status = "failed",
                                     !.error_message = "brand_kit_" \o outcome],
                "generation")
          /\ progress' = IF outcome = "ok" THEN 25 ELSE progress
    /\ UNCHANGED <<final_result, gen_count, regen_transitions, critiqued_path,
                   repaired_path, run_outcome, policy_call, fan, scoring_call>>

generation_node ==
    /\ CanRun("generation")
    /\ \E outcome \in {"ok", "error"} :
          /\ StreamStep("generation",
                IF outcome = "ok"
                  THEN [state EXCEPT
                          !.generated_ad_path = [attempt |-> gen_count + 1, enhanced |-> FALSE],
                          !.generation_success = TRUE,
                          !.refined_prompt = "None"]
                  ELSE [state EXCEPT !.generation_success = FALSE,
                                     !.generation_error = "generation_" \o outcome,
                                     !.workflow_status = "failed",
                                     !.error_message = "generation_" \o outcome],
                "critique")
          /\ progress' = IF outcome = "ok" THEN 50 ELSE progress
          /\ gen_count' = IF outcome = "ok" THEN gen_count + 1 ELSE gen_count
          /\ regen_transitions' = regen_transitions + (IF node_count > 1 THEN 1 ELSE 0)
          /\ repaired_path' = IF outcome = "ok" THEN NoPath ELSE repaired_path
    /\ UNCHANGED <<final_result, critiqued_path, run_outcome,
                   policy_call, fan, scoring_call>>

\* the reports CritiqueAgent.execute can return for one ad path
CritiqueReports(ad_path, brand_kit_extracted) ==
    {evaluate_variations(<<[path |-> ad_path, exists |-> TRUE]>>,
                         <<IF brand_kit_extracted THEN ev
                           ELSE [ev EXCEPT !["brand_alignment"] = NoBrandKitResult]>>) :
        ev \in WorkflowEvaluations}
    \cup {evaluate_variations(<<[path |-> ad_path, exists |-> FALSE]>>, << <<>> >>)}

\* critique_node after a critique report came back
CritiqueSuccess(st, critique_feedback) ==
    [st EXCEPT !.critique_feedback = <<critique_feedback>>,
               !.critique_success = TRUE,
               !.overall_score =
                   IF critique_feedback.all_variations # <<>>
                     THEN critique_feedback.all_variations[1].overall_score
                     ELSE <<0, 1>>]

CritiqueFailure(st, error) ==
    [st EXCEPT !.critique_success = FALSE,
               !.critique_error = error,
               !.workflow_status = "failed",
               !.error_message = error]

GeneratedPaths == {[attempt |-> k, enhanced |-> FALSE] : k \in 1..RecursionLimit}

CritiqueReportsFor ==
    [ad_path \in GeneratedPaths, extracted \in BOOLEAN |->
        CritiqueReports(ad_path, extracted)]

critique_node ==
    /\ CanRun("critique")
    /\ IF state.generated_ad_path = NoPath
         THEN /\ StreamStep("critique",
                    CritiqueFailure(state, "No generated ad to critique"),
                    "refinement")
              /\ UNCHANGED <<progress, critiqued_path>>
         ELSE \/ \E report \in CritiqueReportsFor[state.generated_ad_path,
                                                  state.brand_kit_extracted] :
                    /\ StreamStep("critique", CritiqueSuccess(state, report), "refinement")
                    /\ progress' = 75
                    /\ critiqued_path' = state.generated_ad_path
              \/ /\ StreamStep("critique",
                          CritiqueFailure(state, "critique_error"), "refinement")
                    /\ UNCHANGED <<progress, critiqued_path>>
    /\ UNCHANGED <<final_result, gen_count, regen_transitions, repaired_path,
                   run_outcome, policy_call, fan, scoring_call>>

\* RefinementAgent._create_result: absent keys read back as None
create_refinement_result(success, strategy, message, refined_ad_path, refined_prompt) ==
    [success |-> success, strategy |-> strategy, message |-> message,
     refined_ad_path |-> refined_ad_path, refined_prompt |-> refined_prompt]

\* RefinementAgent._enhance_ad: the results it can return
enhance_ad(ad_path, critique_feedback, media_type) ==
    IF media_type # "image"
      THEN {create_refinement_result(FALSE, "enhance",
                "Enhancement only supported for images", ad_path, "None")}
    ELSE IF ~any_enhancement(critique_feedback)
      THEN {create_refinement_result(FALSE, "enhance",
                "No applicable enhancements identified", ad_path, "None")}
    ELSE {create_refinement_result(TRUE, "enhance", "Image enhanced",
                EnhancedPath(ad_path), "None"),
          create_refinement_result(FALSE, "enhance", "Enhancement failed",
                ad_path, "None"),
          create_refinement_result(FALSE, "enhance", "Enhancement error",
                ad_path, "None")}

\* RefinementAgent._refine_prompt_for_regeneration: the results it can return
refine_prompt_for_regeneration ==
    {create_refinement_result(TRUE, "regenerate", "Prompt refined for regeneration",
            NoPath, "refined"),
     create_refinement_result(FALSE, "regenerate", "Prompt refinement failed",
            NoPath, "original"),
     create_refinement_result(FALSE, "regenerate", "Prompt refinement error",
            NoPath, "original")}

\* RefinementAgent.execute: the results it can return
refinement_execute(ad_path, critique_feedback, media_type) ==
    LET strategy == determine_strategy(critique_feedback, media_type)
    IN  (CASE strategy = "approve" ->
                {create_refinement_result(TRUE, "approve",
                    "Ad meets quality standards", ad_path, "None")}
           [] strategy = "reject" ->
                {create_refinement_result(FALSE, "reject",
                    "Ad has critical issues", ad_path, "None")}
           [] strategy = "enhance" ->
                enhance_ad(ad_path, critique_feedback, media_type)
           [] strategy = "regenerate" ->
                refine_prompt_for_regeneration)
        \cup {create_refinement_result(FALSE, "error", "Refinement error",
                    ad_path, "None")}

refinement_node ==
    /\ CanRun("refinement")
    /\ IF state.critique_feedback = <<>> \/ state.generated_ad_path = NoPath
         THEN LET out == [state EXCEPT
                            !.refinement_success = FALSE,
                            !.refinement_error = "Missing critique feedback or generated ad",
                            !.workflow_status = "failed",
                            !.error_message = "Missing critique feedback or generated ad"]
              IN  /\ StreamStep("refinement", out, RouteAfterRefinement(out))
                  /\ UNCHANGED <<progress, repaired_path>>
         ELSE \/ \E result \in refinement_execute(state.generated_ad_path,
                                                  state.critique_feedback[1],
                                                  state.media_type) :
                    LET out == [state EXCEPT
                                  !.refinement_strategy = result.strategy,
                                  !.refined_ad_path = result.refined_ad_path,
                                  !.refined_prompt = result.refined_prompt,
                                  !.refinement_success = result.success,
                                  !.refinement_error =
                                      IF ~result.success THEN result.message ELSE "None"]
                    IN  /\ StreamStep("refinement", out, RouteAfterRefinement(out))
                        /\ progress' = 90
                        /\ repaired_path' =
                              IF result.strategy = "enhance" /\ result.success
                                THEN result.refined_ad_path ELSE repaired_path
              \/ LET out == [state EXCEPT
                               !.refinement_success = FALSE,
                               !.refinement_error = "refinement_exception",
                               !.workflow_status = "failed",
                               !.error_message = "refinement_exception"]
                 IN  /\ StreamStep("refinement", out, RouteAfterRefinement(out))
                     /\ UNCHANGED <<progress, repaired_path>>
    /\ UNCHANGED <<final_result, gen_count, regen_transitions, critiqued_path,
                   run_outcome, policy_call, fan, scoring_call>>

(***************************************************************************)
(* End of the stream: the final result                                     *)
(***************************************************************************)
\* the dict returned by the except branch of execute (other keys absent)
ExceptResult(error) ==
    [status |-> "failed", success |-> FALSE, error |-> error,
     generated_ad_path |-> NoPath, critique_report |-> <<>>,
     overall_score |-> <<>>, retry_count |-> 0, from_except |-> TRUE]

\* variant: every run that is neither rejected nor out of retries is completed
FinalStatusCompletedByDefault(fs) ==
    LET strategy == fs.refinement_strategy
    IN  IF strategy = "reject" THEN [fs EXCEPT !.workflow_status = "rejected"]
        ELSE IF strategy # "approve" /\ fs.retry_count >= fs.max_retries
             THEN [fs EXCEPT !.workflow_status = "failed",
                             !.error_message = "Maximum retries reached"]
        ELSE [fs EXCEPT !.workflow_status = "completed"]

\* "Determine final status"
FinalStatus(fs) ==
    LET strategy == fs.refinement_strategy
    IN  IF strategy = "approve" THEN [fs EXCEPT !.workflow_status = "completed"]
        ELSE IF strategy = "reject" THEN [fs EXCEPT !.workflow_status = "rejected"]
        ELSE IF fs.retry_count >= fs.max_retries
             THEN [fs EXCEPT !.workflow_status = "failed",
                             !.error_message = "Maximum retries reached"]
        ELSE fs

\* "Create final result"
FinalResult(fs) ==
    [status |-> fs.workflow_status,
     success |-> (fs.workflow_status = "completed"),
     generated_ad_path |-> IF fs.refined_ad_path # NoPath
                             THEN fs.refined_ad_path ELSE fs.generated_ad_path,
     critique_report |-> fs.critique_feedback,
     overall_score |-> fs.overall_score,
     retry_count |-> fs.retry_count,
     error |-> fs.error_message,
     from_except |-> FALSE]

\* the stream is exhausted: the graph reached END
Finalize ==
    /\ pc = "end"
    /\ LET fs0 == IF final_state = <<>>
                    THEN [initial_state(state.media_type, state.max_retries) EXCEPT
                            !.workflow_status = "failed",
                            !.error_message = "Workflow execution failed"]
                    ELSE final_state[1]
           fs == FinalStatus(fs0)
       IN  \/ /\ final_state' = <<fs>>
              /\ final_result' = <<FinalResult(fs)>>
              /\ progress' = IF fs.workflow_status = "completed" THEN 100 ELSE progress
              /\ run_outcome' = IF fs.workflow_status = "completed"
                                  THEN "complete_run" ELSE "fail_run"
           \/ \* update_run_data, update_status, complete_run or fail_run raises
              /\ final_state' = <<fs>>
              /\ final_result' = <<ExceptResult("run_manager_exception")>>
              /\ run_outcome' = "fail_run"
              /\ UNCHANGED progress
    /\ pc' = "done"
    /\ UNCHANGED <<state, node_count, gen_count, regen_transitions, critiqued_path,
                   repaired_path, after_cancel, policy_call, fan, scoring_call>>

\* variant: the engine compares the step counter with > instead of >=
RecursionErrorOffByOne ==
    /\ pc \in Nodes
    /\ node_count > RecursionLimit
    /\ final_result' = <<ExceptResult("Recursion limit reached")>>
    /\ run_outcome' = "fail_run"
    /\ pc' = "done"
    /\ UNCHANGED <<state, final_state, node_count, progress, gen_count,
                   regen_transitions, critiqued_path, repaired_path, after_cancel,
                   policy_call, fan, scoring_call>>

\* the engine is out of supersteps with a node still to run: stream() raises
\* GraphRecursionError, which execute catches
RecursionError ==
    /\ pc \in Nodes
    /\ node_count >= RecursionLimit
    /\ final_result' = <<ExceptResult("Recursion limit reached")>>
    /\ run_outcome' = "fail_run"
    /\ pc' = "done"
    /\ UNCHANGED <<state, final_state, node_count, progress, gen_count,
                   regen_transitions, critiqued_path, repaired_path, after_cancel,
                   policy_call, fan, scoring_call>>

NoCall == [phase |-> "idle"]

Init ==
    /\ pc = "init"
    /\ \E media_type \in {"image", "video"}, max_retries \in 0..MaxRetriesBound :
          state = initial_state(media_type, max_retries)
    /\ final_state = <<>>
    /\ node_count = 0
    /\ final_result = <<>>
    /\ progress = 0
    /\ gen_count = 0
    /\ regen_transitions = 0
    /\ critiqued_path = NoPath
    /\ repaired_path = NoPath
    /\ run_outcome = "none"
    /\ after_cancel = "none"
    /\ policy_call = NoCall
    /\ fan = NoCall
    /\ scoring_call = NoCall

Next ==
    \/ Start
    \/ brand_kit_node
    \/ generation_node
    \/ critique_node
    \/ refinement_node
    \/ Finalize
    \/ RecursionError

Spec == Init /\ [][Next]_vars

\* an external writer sets the status of the run to RunStatus.CANCELLED while
\* the stage at pc is executing; no statement of the orchestrator reads the
\* status of the run, so nothing else changes
Cancel ==
    /\ pc \in Nodes
    /\ node_count < RecursionLimit
    /\ after_cancel = "none"
    /\ after_cancel' = "executing"
    /\ UNCHANGED <<pc, state, final_state, node_count, final_result, progress,
                   gen_count, regen_transitions, critiqued_path, repaired_path,
                   run_outcome, policy_call, fan, scoring_call>>

NextCancel ==
    \/ Next
    \/ Cancel

\* the workflow with a cancellation arriving from outside
SpecCancel == Init /\ [][NextCancel]_vars

(***************************************************************************)
(* The refinement policy as a function: one call on a drawn input          *)
(***************************************************************************)
IssueLists ==
    {<<>>,
     << <<"blur">> >>,
     << <<"logo", "missing">> >>,
     << <<"Logo", "missing">> >>,
     << <<"composition">> >>,
     << <<"blur">>, <<"logo", "missing">> >>}

FeedbackTexts == {<<"fine">>, <<"Logo", "weak">>}

\* a critique report whose top-ranked variation carries the given overall
\* score and the four score cards in the order of Dimensions
PolicyFeedback(overall, brand, quality, clarity, safety) ==
    LET v == [variation_id |-> 1, file_path |-> [attempt |-> 1, enhanced |-> FALSE],
              overall_score |-> overall,
              scorecard |-> <<brand, quality, clarity, safety>>,
              passed |-> FALSE, rank |-> 1]
    IN  [total_variations |-> 1, passed_variations |-> 0, failed_variations |-> 1,
         best_variation |-> <<v>>, all_variations |-> <<v>>]

PolicyInputs ==
    {PolicyFeedback(Tenths(o),
        create_scorecard("brand_alignment", Tenths(b), <<"fine">>, bi),
        create_scorecard("visual_quality", Tenths(q), qf, qi),
        create_scorecard("message_clarity", Tenths(9), <<"fine">>, <<>>),
        create_scorecard("safety_ethics", Tenths(sf), <<"fine">>, <<>>)) :
        o \in 0..10, b \in {5, 9}, bi \in IssueLists, q \in {5, 9},
        qf \in FeedbackTexts, qi \in IssueLists, sf \in {0, 2, 3, 10}}

PolicyAdPath == [attempt |-> 1, enhanced |-> FALSE]

\* the report CritiqueAgent.evaluate_variations builds for one ad from the
\* joined evaluator results ev: the overall score is the scorer's
ScoredReport(ev) ==
    evaluate_variations(<<[path |-> PolicyAdPath, exists |-> TRUE]>>, <<ev>>)

\* brand 0.5, quality 0.5, clarity 0.9, safety 1.0; the issues mention only
\* "blur"
BlurScenarioInputs ==
    {ScoredReport(
        [d \in DimSet |->
            CASE d = "brand_alignment" -> create_result(Tenths(5), <<"fine">>, bi)
              [] d = "visual_quality"  -> create_result(Tenths(5), qf, << <<"blur">> >>)
              [] d = "message_clarity" -> create_result(Tenths(9), <<"fine">>, <<>>)
              [] d = "safety_ethics"   -> create_result(Tenths(10), <<"fine">>, <<>>)]) :
        bi \in {<<>>, << <<"blur">> >>}, qf \in {<<"fine">>, <<"Blur", "visible">>}}

\* brand 0.2, quality 0.9, clarity 0.9, safety 0.9; an issue mentions "logo"
LogoScenarioInputs ==
    {ScoredReport(
        [d \in DimSet |->
            IF d = "brand_alignment" THEN create_result(Tenths(2), bf, bi)
            ELSE create_result(Tenths(9), <<"fine">>, <<>>)]) :
        bf \in FeedbackTexts,
        bi \in {<< <<"logo", "missing">> >>, << <<"Logo", "missing">> >>}}

\* create_mock_critique_feedback of scripts/test_phase6_refinement.py
create_mock_critique_feedback(ad_path, overall_score) ==
    LET passed == RGe(overall_score, Tenths(7))
        v == [variation_id |-> 1, file_path |-> ad_path,
              overall_score |-> overall_score,
              passed |-> passed,
              rank |-> 1,
              scorecard |->
                <<[dimension |-> "brand_alignment", score |-> Tenths(5),
                   feedback |-> <<"Logo", "detected", "but", "colors", "not",
                                  "well", "represented">>,
                   issues |-> << <<"Brand", "colors", "not", "well", "represented">> >>],
                  [dimension |-> "visual_quality", score |-> Tenths(6),
                   feedback |-> <<"Image", "is", "sharp", "but", "has", "some",
                                  "artifacts">>,
                   issues |-> << <<"Visual", "artifacts", "present">> >>],
                  [dimension |-> "message_clarity", score |-> Tenths(7),
                   feedback |-> <<"Product", "is", "visible", "and", "message",
                                  "is", "clear">>,
                   issues |-> <<>>],
                  [dimension |-> "safety_ethics", score |-> Tenths(10),
                   feedback |-> <<"No", "harmful", "content", "detected">>,
                   issues |-> <<>>]>>]
    IN  [total_variations |-> 1,
         passed_variations |-> IF passed THEN 1 ELSE 0,
         failed_variations |-> IF passed THEN 0 ELSE 1,
         best_variation |-> <<>>,
         all_variations |-> <<v>>]

\* the scores of the scenarios of test_refinement_agent
MockScores == {Rat(85, 100), Rat(55, 100), Rat(45, 100), Rat(25, 100)}

MockInputs == {create_mock_critique_feedback(PolicyAdPath, o) : o \in MockScores}

ScenarioInputs == BlurScenarioInputs \cup LogoScenarioInputs \cup MockInputs

InitPolicy ==
    /\ pc = "policy"
    /\ state = initial_state("image", 0)
    /\ final_state = <<>>
    /\ node_count = 0
    /\ final_result = <<>>
    /\ progress = 0
    /\ gen_count = 0
    /\ regen_transitions = 0
    /\ critiqued_path = NoPath
    /\ repaired_path = NoPath
    /\ run_outcome = "none"
    /\ after_cancel = "none"
    /\ fan = NoCall
    /\ scoring_call = NoCall
    /\ \E cf \in PolicyInputs \cup ScenarioInputs, media_type \in {"image", "video"} :
          policy_call = [phase |-> "called", critique_feedback |-> cf,
                         media_type |-> media_type, strategy |-> "None"]

\* strategy = self._determine_strategy(critique_feedback, media_type)
DetermineStrategy ==
    /\ policy_call.phase = "called"
    /\ policy_call' = [policy_call EXCEPT
                         !.phase = "decided",
                         !.strategy = determine_strategy(policy_call.critique_feedback,
                                                         policy_call.media_type)]
    /\ UNCHANGED wf_vars
    /\ UNCHANGED <<fan, scoring_call>>

\* result = refinement_agent.execute(ad_path, critique_feedback, ...): the
\* strategy of the result it returns
RefinementExecute ==
    /\ policy_call.phase = "called"
    /\ \E result \in refinement_execute(PolicyAdPath, policy_call.critique_feedback,
                                         policy_call.media_type) :
          policy_call' = [policy_call EXCEPT !.phase = "executed",
                                             !.strategy = result.strategy]
    /\ UNCHANGED wf_vars
    /\ UNCHANGED <<fan, scoring_call>>

NextPolicy ==
    \/ DetermineStrategy
    \/ RefinementExecute

SpecPolicy == InitPolicy /\ [][NextPolicy]_vars

(***************************************************************************)
(* The evaluator fan-out of CritiqueAgent.evaluate_variations (one ad)     *)
(***************************************************************************)
FanPath == [attempt |-> 1, enhanced |-> FALSE]

InitFan ==
    /\ pc = "fan"
    /\ state = initial_state("image", 0)
    /\ final_state = <<>>
    /\ node_count = 0
    /\ final_result = <<>>
    /\ progress = 0
    /\ gen_count = 0
    /\ regen_transitions = 0
    /\ critiqued_path = NoPath
    /\ repaired_path = NoPath
    /\ run_outcome = "none"
    /\ after_cancel = "none"
    /\ policy_call = NoCall
    /\ scoring_call = NoCall
    /\ fan = [phase |-> "start",
              running |-> {},      \* evaluators submitted and not yet returned
              results |-> <<>>,    \* future -> value it holds, for finished futures
              threw |-> {},        \* history: evaluators whose analysis raised
              order |-> <<>>,      \* history: completion order
              waited |-> 0,        \* future.result() calls that have returned
              report |-> <<>>]

\* the four executor.submit calls
SubmitEvaluators ==
    /\ fan.phase = "start"
    /\ fan' = [fan EXCEPT !.phase = "waiting", !.running = DimSet]
    /\ UNCHANGED wf_vars
    /\ UNCHANGED <<policy_call, scoring_call>>

\* a worker thread finishes XEvaluator.evaluate: with a result, or with the
\* error default of its except branch
EvaluatorReturns ==
    /\ \E d \in fan.running :
          \/ \E r \in EvaluatorResults(d) :
                fan' = [fan EXCEPT !.running = fan.running \ {d},
                                   !.results = (d :> r) @@ fan.results,
                                   !.order = Append(fan.order, d)]
          \/ fan' = [fan EXCEPT !.running = fan.running \ {d},
                                !.results = (d :> EvaluatorError(ErrorWord(d))) @@ fan.results,
                                !.threw = fan.threw \cup {d},
                                !.order = Append(fan.order, d)]
    /\ UNCHANGED wf_vars
    /\ UNCHANGED <<policy_call, scoring_call>>

\* brand_future.result(), quality_future.result(), ... : each blocks until
\* its own future is finished
WaitResult ==
    /\ fan.phase = "waiting"
    /\ fan.waited < Len(Dimensions)
    /\ Dimensions[fan.waited + 1] \notin fan.running
    /\ fan' = [fan EXCEPT !.waited = fan.waited + 1]
    /\ UNCHANGED wf_vars
    /\ UNCHANGED <<policy_call, scoring_call>>

\* variant: the results are taken in completion order (as_completed)
JoinedResultsByCompletion(f) ==
    [d \in DimSet |->
        f.results[f.order[CHOOSE k \in 1..Len(Dimensions) : Dimensions[k] = d]]]

\* brand_result, quality_result, clarity_result, safety_result: each name is
\* bound to the value of its own future
JoinedResults(f) == [d \in DimSet |-> f.results[d]]

\* scorecards, overall score, pass/fail, ranking and the report
ScoreAndReport ==
    /\ fan.phase = "waiting"
    /\ fan.waited = Len(Dimensions)
    /\ fan' = [fan EXCEPT
                 !.phase = "scored",
                 !.report = <<evaluate_variations(
                                 <<[path |-> FanPath, exists |-> TRUE]>>,
                                 <<JoinedResults(fan)>>)>>]
    /\ UNCHANGED wf_vars
    /\ UNCHANGED <<policy_call, scoring_call>>

NextFan ==
    \/ SubmitEvaluators
    \/ EvaluatorReturns
    \/ WaitResult
    \/ ScoreAndReport

SpecFan == InitFan /\ [][NextFan]_vars

(***************************************************************************)
(* The scorer and the ranker as functions: one call on a drawn input       *)
(***************************************************************************)
ScoreValues == {Tenths(0), Tenths(4), Tenths(8), Tenths(10)}

WeightValues == {<<-1, 1>>, <<0, 1>>, <<1, 1>>, <<2, 1>>}

\* dicts of dimension scores over one, two or three dimensions
ScoreDicts ==
    UNION {[dims -> ScoreValues] :
             dims \in {{"brand_alignment"},
                       {"brand_alignment", "visual_quality"},
                       {"brand_alignment", "visual_quality", "safety_ethics"}}}

\* None, or a dict of weights for some of the dimensions
WeightsFor(dims) ==
    {<<>>} \cup {<<w>> : w \in UNION {[keys -> WeightValues] : keys \in SUBSET dims}}

PassFailScores == {Tenths(3), Tenths(4), Tenths(5)}

PassFailDicts ==
    {<<>>} \cup UNION {[1..n -> PassFailScores] : n \in 1..2}

RankScores == {Tenths(6), Tenths(8)}

\* a VariationResult as evaluate_variations builds it: variation_id is the
\* position in the input list, rank is not yet assigned
UnrankedVariation(i, overall_score) ==
    [variation_id |-> i, file_path |-> [attempt |-> i, enhanced |-> FALSE],
     overall_score |-> overall_score, scorecard |-> <<>>,
     passed |-> determine_pass_fail(overall_score, <<>>), rank |-> 0]

VariationLists ==
    UNION {{[i \in 1..n |-> UnrankedVariation(i, sc[i])] : sc \in [1..n -> RankScores]} :
             n \in 0..MaxVariations}

\* joined evaluator results for one variation of a critique of several ads:
\* overall 0.7 (passes), 0.575 (fails), 0.65 (passes)
ReportEvaluations ==
    {AllGood,
     [AllGood EXCEPT !["brand_alignment"] = LogoResult],
     [AllGood EXCEPT !["visual_quality"] = BlurResult]}

\* lists of ad paths, each file present or missing
AdPathLists ==
    UNION {{[i \in 1..n |-> [path |-> [attempt |-> i, enhanced |-> FALSE],
                             exists |-> ex[i]]] : ex \in [1..n -> BOOLEAN]} :
             n \in 0..MaxVariations}

QueryScores == {Tenths(5), Tenths(8)}

\* lists handed to the ranker's queries: freshly built variations (rank not
\* assigned), and the same lists as rank_variations returns them
QueryLists ==
    LET fresh == UNION {{[i \in 1..n |-> UnrankedVariation(i, sc[i])] :
                            sc \in [1..n -> QueryScores]} : n \in 0..MaxVariations}
    IN  fresh \cup {rank_variations(l) : l \in fresh}

TopNs == -1..2

InitScoring ==
    /\ pc = "scoring"
    /\ state = initial_state("image", 0)
    /\ final_state = <<>>
    /\ node_count = 0
    /\ final_result = <<>>
    /\ progress = 0
    /\ gen_count = 0
    /\ regen_transitions = 0
    /\ critiqued_path = NoPath
    /\ repaired_path = NoPath
    /\ run_outcome = "none"
    /\ after_cancel = "none"
    /\ policy_call = NoCall
    /\ fan = NoCall
    /\ \/ \E dimension_scores \in ScoreDicts :
             \E weights \in WeightsFor(DOMAIN dimension_scores) :
                scoring_call = [phase |-> "called", op |-> "calculate_overall_score",
                                dimension_scores |-> dimension_scores,
                                weights |-> weights]
       \/ \E overall_score \in {Tenths(5), Tenths(6), Tenths(7)},
             dimension_scores \in PassFailDicts :
                scoring_call = [phase |-> "called", op |-> "determine_pass_fail",
                                overall_score |-> overall_score,
                                dimension_scores |-> dimension_scores]
       \/ \E variation_results \in VariationLists :
                scoring_call = [phase |-> "called", op |-> "rank_variations",
                                variation_results |-> variation_results]
       \/ \E ad_paths \in AdPathLists :
             \E evals \in [1..Len(ad_paths) -> ReportEvaluations] :
                scoring_call = [phase |-> "called", op |-> "evaluate_variations",
                                ad_paths |-> ad_paths, evals |-> evals]
       \/ \E variation_results \in QueryLists, top_n \in TopNs :
                scoring_call = [phase |-> "called", op |-> "get_top_variations",
                                variation_results |-> variation_results,
                                top_n |-> top_n]
       \/ \E variation_results \in QueryLists :
                scoring_call = [phase |-> "called", op |-> "get_passed_variations",
                                variation_results |-> variation_results]

\* the call returns: the record keeps the input and gets the result
Return(result) ==
    /\ scoring_call' = [r \in {"result"} |-> result]
                        @@ [scoring_call EXCEPT !.phase = "returned"]
    /\ UNCHANGED wf_vars
    /\ UNCHANGED <<policy_call, fan>>

CalculateOverallScore ==
    /\ scoring_call.phase = "called"
    /\ scoring_call.op = "calculate_overall_score"
    /\ Return(calculate_overall_score(scoring_call.dimension_scores,
                                      scoring_call.weights))

DeterminePassFail ==
    /\ scoring_call.phase = "called"
    /\ scoring_call.op = "determine_pass_fail"
    /\ Return(determine_pass_fail(scoring_call.overall_score,
                                  scoring_call.dimension_scores))

RankVariations ==
    /\ scoring_call.phase = "called"
    /\ scoring_call.op = "rank_variations"
    /\ Return(rank_variations(scoring_call.variation_results))

EvaluateVariations ==
    /\ scoring_call.phase = "called"
    /\ scoring_call.op = "evaluate_variations"
    /\ Return(evaluate_variations(scoring_call.ad_paths, scoring_call.evals))

\* a query of the ranker returns: the record also gets the caller's list as
\* it is after the call
ReturnQuery(result, variation_results_after) ==
    /\ scoring_call' = [r \in {"result"} |-> result]
                        @@ [r \in {"variation_results_after"} |-> variation_results_after]
                        @@ [scoring_call EXCEPT !.phase = "returned"]
    /\ UNCHANGED wf_vars
    /\ UNCHANGED <<policy_call, fan>>

GetTopVariations ==
    /\ scoring_call.phase = "called"
    /\ scoring_call.op = "get_top_variations"
    /\ ReturnQuery(get_top_variations(scoring_call.variation_results,
                                      scoring_call.top_n),
                   RankedInPlace(scoring_call.variation_results))

GetPassedVariations ==
    /\ scoring_call.phase = "called"
    /\ scoring_call.op = "get_passed_variations"
    /\ ReturnQuery(get_passed_variations(scoring_call.variation_results),
                   scoring_call.variation_results)

NextScoring ==
    \/ CalculateOverallScore
    \/ DeterminePassFail
    \/ RankVariations
    \/ EvaluateVariations
    \/ GetTopVariations
    \/ GetPassedVariations

SpecScoring == InitScoring /\ [][NextScoring]_vars

(***************************************************************************)
(* Properties                                                              *)
(***************************************************************************)
Returned == pc = "done"

Result == final_result[1]

\* C1: with max_retries = N a run re-enters generation from refinement at
\* most N times, and a run that used up its N regenerations and decides
\* regenerate again returns status failed
C1_RegenerationsWithinMaxRetries ==
    /\ regen_transitions <= state.max_retries
    /\ (Returned /\ ~Result.from_except /\ state.refinement_strategy = "regenerate"
            => Result.status = "failed")

\* an upper bound on the steps a run still has to take: the supersteps the
\* engine has left, plus the start of the stream and the return of execute
StepsLeft ==
    CASE pc = "init" -> RecursionLimit + 3
      [] pc \in Nodes -> (RecursionLimit - node_count) + 2
      [] pc = "end" -> 1
      [] OTHER -> 0

C3_StatusTerminalOnReturn ==
    Returned => Result.status \in {"completed", "failed", "rejected"}

\* a stage recorded the failure of its external call in the workflow state
StageFailed(st) ==
    \/ st.workflow_status = "failed"
    \/ st.refinement_strategy \in {"enhance", "regenerate"} /\ ~st.refinement_success

\* the messages of the failures recorded in the workflow state
FailureMessages(st) ==
    (IF ~st.brand_kit_extracted THEN {"brand_kit_error"} ELSE {})
    \cup ({st.generation_error, st.critique_error, st.refinement_error} \ {"None"})

\* C4: after the external call of a stage failed no further stage is started,
\* and the run returns status failed with the message of that failure
C4_StageFailureHaltsRun ==
    /\ (pc \in Nodes => ~StageFailed(state))
    /\ (Returned /\ StageFailed(state)
            => Result.status = "failed" /\ Result.error \in FailureMessages(state))

TopVariation(cf) == cf.all_variations[1]

SafetyScore(cf) == TopVariation(cf).scorecard[4].score

\* C5: a top-ranked variation with a safety score below 0.3 is rejected,
\* whatever its overall score, its other cards and the media kind
C5_SafetyFloorRejects ==
    (policy_call.phase = "decided"
        /\ RLt(SafetyScore(policy_call.critique_feedback), Tenths(3)))
    => policy_call.strategy = "reject"

\* a video whose overall score is 0.9 and whose safety score is 0.2 was rejected
C5_Witness ==
    /\ policy_call.phase = "decided"
    /\ policy_call.media_type = "video"
    /\ TopVariation(policy_call.critique_feedback).overall_score = Tenths(9)
    /\ SafetyScore(policy_call.critique_feedback) = Tenths(2)
    /\ policy_call.strategy = "reject"

\* C6: with a safety score of at least 0.3, an overall score below 0.3 gives
\* reject, one of at least 0.7 gives approve, and one in between gives
\* neither approve nor reject
C6_OverallScoreGates ==
    (policy_call.phase = "decided"
        /\ RGe(SafetyScore(policy_call.critique_feedback), Tenths(3)))
    => LET overall == TopVariation(policy_call.critique_feedback).overall_score
       IN  /\ RLt(overall, Tenths(3)) => policy_call.strategy = "reject"
           /\ RGe(overall, Tenths(7)) => policy_call.strategy = "approve"
           /\ (RGe(overall, Tenths(3)) /\ RLt(overall, Tenths(7)))
                 => policy_call.strategy \notin {"approve", "reject"}

\* an overall score of exactly 0.7 with safety exactly 0.3 was approved
C6_Witness ==
    /\ policy_call.phase = "decided"
    /\ SafetyScore(policy_call.critique_feedback) = Tenths(3)
    /\ TopVariation(policy_call.critique_feedback).overall_score = Tenths(7)
    /\ policy_call.strategy = "approve"

\* the simple keyword set as the specification lists it
spec_simple_keywords == {"blur", "noise", "contrast", "brightness", "artifact"}

\* every issue flagged by a dimension scoring below 0.7 contains a simple
\* keyword and no complex keyword (read without regard to letter case)
EveryIssueOnlySimple(cf) ==
    \A k \in 1..Len(TopVariation(cf).scorecard) :
        LET card == TopVariation(cf).scorecard[k]
        IN  RLt(card.score, Tenths(7)) =>
              \A i \in 1..Len(card.issues) :
                 /\ AnyKeywordIn(spec_simple_keywords, LowerText(card.issues[i]))
                 /\ ~AnyKeywordIn(complex_issue_keywords, LowerText(card.issues[i]))

\* C7: in the middle band (safety >= 0.3, 0.3 <= overall < 0.7) the policy
\* answers enhance exactly for an image all of whose flagged issues are
\* simple, and regenerate otherwise
C7_EnhanceIffImageAndOnlySimple ==
    LET cf == policy_call.critique_feedback
    IN  (policy_call.phase = "decided"
            /\ RGe(SafetyScore(cf), Tenths(3))
            /\ RGe(TopVariation(cf).overall_score, Tenths(3))
            /\ RLt(TopVariation(cf).overall_score, Tenths(7)))
        => /\ policy_call.strategy \in {"enhance", "regenerate"}
           /\ policy_call.strategy = "enhance"
                 <=> (policy_call.media_type = "image" /\ EveryIssueOnlySimple(cf))

\* C8: the critique pass that follows a successful enhancement evaluates
\* the enhanced artifact
C8_CritiqueEvaluatesRepairedArtifact ==
    (pc = "refinement"
        /\ state.refinement_strategy = "enhance"
        /\ state.refinement_success
        /\ state.critique_success)
    => critiqued_path = state.refined_ad_path

FanVariation == fan.report[1].all_variations[1]

\* C9: an evaluator that raised gets a neutral 0.5 score card, the other
\* dimensions keep their results, and the critique yields its report
C9_FailedEvaluatorGetsNeutralDefault ==
    fan.phase = "scored" =>
        /\ Len(fan.report[1].all_variations) = 1
        /\ \A k \in 1..Len(Dimensions) :
              FanVariation.scorecard[k].score =
                 IF Dimensions[k] \in fan.threw THEN Tenths(5)
                 ELSE fan.results[Dimensions[k]].score

\* C10: the scorer runs only after all four evaluators have finished, and
\* the score cards (in the order of Dimensions) and the overall score are
\* determined by the result of each dimension, not by the completion order
C10_JoinIsDeterministic ==
    fan.phase = "scored" =>
        /\ fan.running = {}
        /\ DOMAIN fan.results = DimSet
        /\ \A k \in 1..Len(Dimensions) :
              /\ FanVariation.scorecard[k].dimension = Dimensions[k]
              /\ FanVariation.scorecard[k].score = fan.results[Dimensions[k]].score
              /\ FanVariation.scorecard[k].feedback = fan.results[Dimensions[k]].feedback
              /\ FanVariation.scorecard[k].issues = fan.results[Dimensions[k]].issues
        /\ RMul(<<Len(Dimensions), 1>>, FanVariation.overall_score)
              = RSum([k \in 1..Len(Dimensions) |-> fan.results[Dimensions[k]].score])

\* the evaluators finished in the reverse of the canonical order, with
\* different results for the first and the last dimension
C10_Witness ==
    /\ fan.phase = "scored"
    /\ fan.order = <<"safety_ethics", "message_clarity", "visual_quality", "brand_alignment">>
    /\ fan.results["brand_alignment"] # fan.results["safety_ethics"]

ScoreCallReturned(op) ==
    scoring_call.phase = "returned" /\ scoring_call.op = op

\* the unweighted arithmetic mean of the values of a dict of scores
Mean(dimension_scores) ==
    RDiv(RSumOver(dimension_scores, DOMAIN dimension_scores),
         <<Cardinality(DOMAIN dimension_scores), 1>>)

\* the sum of the supplied weights over the present dimensions, a dimension
\* without a supplied weight counting 0
SuppliedWeightSum(dimension_scores, w) ==
    RSumOver([dim \in DOMAIN dimension_scores |-> Get(w, dim, <<0, 1>>)],
             DOMAIN dimension_scores)

\* C11: without weights, calculate_overall_score of a non-empty dict of scores
\* is the unweighted mean of the scores, clamped to [0,1]
C11_NoWeightsGivesMean ==
    (ScoreCallReturned("calculate_overall_score") /\ scoring_call.weights = <<>>)
    => scoring_call.result = Clamp01(Mean(scoring_call.dimension_scores))

\* the scores 0.4, 0.8 and 1.0 without weights gave 11/15
C11_Witness ==
    /\ ScoreCallReturned("calculate_overall_score")
    /\ scoring_call.weights = <<>>
    /\ scoring_call.dimension_scores =
          [dim \in {"brand_alignment", "visual_quality", "safety_ethics"} |->
             CASE dim = "brand_alignment" -> Tenths(4)
               [] dim = "visual_quality" -> Tenths(8)
               [] OTHER -> Tenths(10)]
    /\ scoring_call.result = Rat(11, 15)

\* C12: with supplied weights that sum to zero over the present dimensions,
\* calculate_overall_score gives the unweighted mean of the scores
C12_ZeroWeightSumFallsBackToMean ==
    (/\ ScoreCallReturned("calculate_overall_score")
     /\ scoring_call.weights # <<>>
     /\ SuppliedWeightSum(scoring_call.dimension_scores, scoring_call.weights[1])[1] = 0)
    => scoring_call.result = Clamp01(Mean(scoring_call.dimension_scores))

\* C13: with supplied weights of positive sum, calculate_overall_score gives
\* sum(weight * score) / sum(weight), a missing weight counting 0 in both
\* sums, clamped to [0,1]
C13_WeightedMean ==
    (/\ ScoreCallReturned("calculate_overall_score")
     /\ scoring_call.weights # <<>>
     /\ SuppliedWeightSum(scoring_call.dimension_scores, scoring_call.weights[1])[1] > 0)
    => LET ds == scoring_call.dimension_scores
           w == scoring_call.weights[1]
           num == RSumOver([dim \in DOMAIN ds |->
                              RMul(Get(w, dim, <<0, 1>>), ds[dim])], DOMAIN ds)
       IN  scoring_call.result = Clamp01(RDiv(num, SuppliedWeightSum(ds, w)))

\* C14: determine_pass_fail with the default thresholds is true exactly when
\* the overall score is at least 0.6 and no dimension score is below 0.4
C14_PassIffOverallAndMinimum ==
    ScoreCallReturned("determine_pass_fail")
    => (scoring_call.result
          <=> /\ RGe(scoring_call.overall_score, Tenths(6))
              /\ \A i \in DOMAIN scoring_call.dimension_scores :
                    RGe(scoring_call.dimension_scores[i], Tenths(4)))

\* an overall score of exactly 0.6 with dimension scores 0.4 and 0.5 passed
C14_Witness ==
    /\ ScoreCallReturned("determine_pass_fail")
    /\ scoring_call.overall_score = Tenths(6)
    /\ scoring_call.dimension_scores = <<Tenths(4), Tenths(5)>>
    /\ scoring_call.result = TRUE

\* C15: rank_variations returns the input variations (variation_id is the
\* input position) by descending overall score, equal scores in input
\* order, with rank i at output position i
C15_RankingIsStableDescending ==
    ScoreCallReturned("rank_variations")
    => LET input == scoring_call.variation_results
           ranked == scoring_call.result
       IN  /\ Len(ranked) = Len(input)
           /\ {ranked[i].variation_id : i \in 1..Len(ranked)} = 1..Len(input)
           /\ \A i \in 1..Len(ranked) :
                 /\ ranked[i].rank = i
                 /\ ranked[i] = [input[ranked[i].variation_id] EXCEPT !.rank = i]
           /\ \A i, j \in 1..Len(ranked) :
                 i < j =>
                   \/ RLt(ranked[j].overall_score, ranked[i].overall_score)
                   \/ /\ ranked[j].overall_score = ranked[i].overall_score
                      /\ ranked[i].variation_id < ranked[j].variation_id

\* the scores 0.8, 0.8, 0.6 in that order got the ranks 1, 2, 3 with the two
\* 0.8s in input order
C15_Witness ==
    /\ ScoreCallReturned("rank_variations")
    /\ Len(scoring_call.variation_results) = 3
    /\ [i \in 1..3 |-> scoring_call.variation_results[i].overall_score]
          = <<Tenths(8), Tenths(8), Tenths(6)>>
    /\ [i \in 1..3 |-> scoring_call.result[i].variation_id] = <<1, 2, 3>>
    /\ [i \in 1..3 |-> scoring_call.result[i].rank] = <<1, 2, 3>>

\* C16: the retry_count of the workflow state grows by exactly 1 on a
\* regenerate transition (refinement -> generation) and is left unchanged by
\* every other step
C16_RetryCountChangesOnlyOnRegenerate ==
    [][IF pc = "refinement" /\ pc' = "generation"
         THEN state'.retry_count = state.retry_count + 1
         ELSE state'.retry_count = state.retry_count]_vars

\* the image enhancer wrote a repaired artifact for the artifact that is the
\* generated one when the run ends
RepairedArtifactExists ==
    /\ repaired_path # NoPath
    /\ repaired_path = EnhancedPath(state.generated_ad_path)

\* C17: the artifact of the final result is the repaired artifact when an
\* enhance step produced one, and the generated artifact otherwise
C17_FinalArtifactPrefersRepaired ==
    (Returned /\ ~Result.from_except)
    => Result.generated_ad_path =
          IF RepairedArtifactExists THEN repaired_path ELSE state.generated_ad_path

\* C18: the progress written by the status updates of a run never decreases
C18_ProgressNeverDecreases ==
    [][progress' >= progress]_vars

\* C19: a run without a failed stage whose refinement policy answered reject
\* returns status rejected, is not closed as a failed run, and carries no
\* error
C19_RejectIsNotAFailure ==
    (/\ Returned
     /\ ~Result.from_except
     /\ state.workflow_status = "in_progress"
     /\ state.refinement_strategy = "reject")
    => /\ Result.status = "rejected"
       /\ run_outcome # "fail_run"
       /\ Result.error = "None"

\* C20: after the status of a run was set to cancelled while a stage was
\* executing, no further stage of the run is started
C20_NoStageAfterCancellation ==
    after_cancel # "started"

\* C21: every critique report has passed_variations + failed_variations =
\* total_variations, and its best_variation, when present, is the first
\* element of all_variations and has rank 1
C21_ReportCountsAndBest ==
    ScoreCallReturned("evaluate_variations")
    => LET report == scoring_call.result
       IN  /\ report.passed_variations + report.failed_variations
                 = report.total_variations
           /\ report.total_variations = Len(report.all_variations)
           /\ report.passed_variations
                 = Cardinality({i \in 1..Len(report.all_variations) :
                                  report.all_variations[i].passed})
           /\ (report.best_variation = <<>>) <=> (report.all_variations = <<>>)
           /\ report.best_variation # <<>>
                 => /\ report.best_variation[1] = report.all_variations[1]
                    /\ report.best_variation[1].rank = 1

\* three ad paths of which the first is missing: the report counts two
\* variations, one passed and one failed, and the best one is the second
\* of the evaluated files
C21_Witness ==
    /\ ScoreCallReturned("evaluate_variations")
    /\ Len(scoring_call.ad_paths) = 3
    /\ ~scoring_call.ad_paths[1].exists
    /\ scoring_call.result.total_variations = 2
    /\ scoring_call.result.passed_variations = 1
    /\ scoring_call.result.failed_variations = 1
    /\ scoring_call.result.best_variation[1].variation_id = 3
    /\ scoring_call.result.best_variation[1].rank = 1


\* the messages the stages record when their external call raises
StageExceptionMessages ==
    {"brand_kit_error", "generation_error", "critique_error", "refinement_exception"}

\* C22: an exception raised inside a stage is caught by that stage and
\* recorded as workflow status failed, and execute always hands a result to
\* its caller: it never leaves by an exception
C22_ExceptionsBecomeFailedResults ==
    /\ pc # "raised"
    /\ (state.error_message \in StageExceptionMessages
            => state.workflow_status = "failed")
    /\ (Returned => final_result # <<>>)

TerminalStatuses == {"failed", "rejected", "completed"}

\* C23: once the workflow status is failed, rejected or completed, no later
\* step changes a field of the workflow state, and the status failed that a
\* stage has set is not replaced by completed when the run is closed
C23_TerminalStateIsImmutable ==
    [][/\ (state.workflow_status \in TerminalStatuses => state' = state)
       /\ ((pc = "end" /\ final_state # <<>>
                /\ final_state[1].workflow_status = "failed")
            => final_state'[1].workflow_status # "completed")]_vars

\* C24: a run that ends on a regenerate decision without a failed stage
\* reports failed with 'Maximum retries reached', and a run that ends after
\* a stage failure (not on a regenerate decision) reports the message that
\* stage recorded, which is not the retry-exhaustion message
C24_RetryExhaustionMessageIsDistinct ==
    (Returned /\ ~Result.from_except)
    => /\ (state.refinement_strategy = "regenerate"
              /\ state.workflow_status # "failed")
           => (Result.status = "failed"
                 /\ Result.error = "Maximum retries reached")
       /\ (state.workflow_status = "failed"
              /\ state.refinement_strategy # "regenerate")
           => (Result.error = state.error_message
                 /\ Result.error # "Maximum retries reached")


\* C29: the retry_count of the final result is the number of regenerate
\* transitions (executions of the generation stage entered from refinement)
\* the run has made
C29_ReportedRetryCountIsRegenerations ==
    (Returned /\ ~Result.from_except)
    => Result.retry_count = regen_transitions


\* C30: a run returns status completed (success true) only if its last
\* refinement decision was approve, taken on the latest critique report of
\* the workflow state, and that report, which is the one in the result, has
\* a top-ranked variation with overall score >= 0.7 and safety score >= 0.3
C30_CompletedOnlyWhenApproved ==
    (Returned /\ (Result.status = "completed" \/ Result.success))
    => /\ Result.status = "completed" /\ Result.success
       /\ state.refinement_strategy = "approve"
       /\ Result.critique_report = state.critique_feedback
       /\ Result.critique_report # <<>>
       /\ Result.critique_report[1].all_variations # <<>>
       /\ RGe(TopVariation(Result.critique_report[1]).overall_score, Tenths(7))
       /\ RGe(SafetyScore(Result.critique_report[1]), Tenths(3))

\* a run was completed after a regeneration, on a report whose top-ranked
\* variation scores exactly 0.7
C30_Witness ==
    /\ Returned
    /\ Result.status = "completed"
    /\ regen_transitions = 1
    /\ TopVariation(Result.critique_report[1]).overall_score = Tenths(7)


\* C27: get_top_variations and get_passed_variations leave the list they
\* are given as it was: the same VariationResults in the same order, every
\* field of each, rank included, unchanged
C27_RankerQueriesDoNotMutate ==
    (ScoreCallReturned("get_top_variations")
        \/ ScoreCallReturned("get_passed_variations"))
    => scoring_call.variation_results_after = scoring_call.variation_results


PolicyDecided == policy_call.phase = "decided"

\* C25 as stated: for dimension scores brand 0.5, quality 0.5, clarity 0.9,
\* safety 1.0 (overall score from the scorer) and issues that only mention
\* "blur", the policy answers enhance for an image and regenerate for a video
C25_BlurScenarioEnhancesImage ==
    (PolicyDecided /\ policy_call.critique_feedback \in BlurScenarioInputs)
    => policy_call.strategy =
          IF policy_call.media_type = "image" THEN "enhance" ELSE "regenerate"

\* C25 as amended: for these dimension scores the scorer gives the overall
\* score 0.725, and the policy answers approve for an image and for a video
C25_BlurScenarioIsApproved ==
    (PolicyDecided /\ policy_call.critique_feedback \in BlurScenarioInputs)
    => /\ TopVariation(policy_call.critique_feedback).overall_score = Rat(29, 40)
       /\ policy_call.strategy = "approve"

\* the policy decided on the blur scenario for an image, the issue "blur"
\* flagged by both low dimensions
C25_Witness ==
    /\ PolicyDecided
    /\ policy_call.critique_feedback \in BlurScenarioInputs
    /\ TopVariation(policy_call.critique_feedback).scorecard[1].issues = << <<"blur">> >>
    /\ policy_call.media_type = "image"
    /\ policy_call.strategy = "approve"

\* C26 as stated: for dimension scores brand 0.2, quality 0.9, clarity 0.9,
\* safety 0.9 (overall score from the scorer) and an issue that mentions
\* "logo", the policy answers regenerate
C26_LogoScenarioRegenerates ==
    (PolicyDecided /\ policy_call.critique_feedback \in LogoScenarioInputs)
    => policy_call.strategy = "regenerate"

\* C26 as amended: for these dimension scores the scorer gives the overall
\* score 0.725, and the policy answers approve
C26_LogoScenarioIsApproved ==
    (PolicyDecided /\ policy_call.critique_feedback \in LogoScenarioInputs)
    => /\ TopVariation(policy_call.critique_feedback).overall_score = Rat(29, 40)
       /\ policy_call.strategy = "approve"

\* the policy decided on the logo scenario, the issue being "logo missing"
C26_Witness ==
    /\ PolicyDecided
    /\ policy_call.critique_feedback \in LogoScenarioInputs
    /\ TopVariation(policy_call.critique_feedback).scorecard[1].issues
          = << <<"logo", "missing">> >>
    /\ policy_call.strategy = "approve"

\* RefinementAgent.execute returned for the mock feedback and an image, and
\* not through its except branch
MockExecuted ==
    /\ policy_call.phase = "executed"
    /\ policy_call.media_type = "image"
    /\ policy_call.critique_feedback \in MockInputs
    /\ policy_call.strategy # "error"

MockScore == TopVariation(policy_call.critique_feedback).overall_score

====
